---- MODULE Spec2Model ----
(***************************************************************************)
(* Model of src/ads_video_generation_agent/agent.py: merge_videos, with    *)
(* the local filesystem, the GCS store and uuid.uuid4 as its environment.  *)
(* Strings are sequences of tokens: "/" and ":" -free names are atomic, a  *)
(* scheme "gs://" is the three tokens "gs:", "/", "/".                     *)
(***************************************************************************)
EXTENDS Integers, Sequences, FiniteSets, TLC

\* ---------------------------------------------------------------- bounds
MaxCalls == 2

\* failures the environment injects in one run (a step that fails by itself,
\* such as a reference that does not parse, is not counted)
MaxFaults == 2

\* Firestore tool calls in one run
MaxOps == 2

\* client.operations.get calls one generate_video_with_veo call makes in a run;
\* the loop of the code has no such limit
MaxPolls == 2

Calls == 1..MaxCalls

Null == "null"

\* ------------------------------------------------------- string helpers
GsPrefix == <<"gs:", "/", "/">>

StartsWith(s, p) == Len(s) >= Len(p) /\ SubSeq(s, 1, Len(p)) = p

Drop(s, n) == SubSeq(s, n + 1, Len(s))

\* uri.replace('gs://', ''): every occurrence removed, left to right
RECURSIVE StrReplaceGs(_)
StrReplaceGs(s) ==
    IF s = <<>> THEN <<>>
    ELSE IF StartsWith(s, GsPrefix) THEN StrReplaceGs(Drop(s, Len(GsPrefix)))
    ELSE <<Head(s)>> \o StrReplaceGs(Tail(s))

\* index of the first "/" of s, 0 when there is none
RECURSIVE FirstSlash(_, _)
FirstSlash(s, i) ==
    IF i > Len(s) THEN 0
    ELSE IF s[i] = "/" THEN i
    ELSE FirstSlash(s, i + 1)

\* a split that always yields two parts, the second empty when s has no "/"
StrSplit1Padded(s) ==
    LET i == FirstSlash(s, 1)
    IN  IF i = 0 THEN <<s, <<>>>>
        ELSE <<SubSeq(s, 1, i - 1), SubSeq(s, i + 1, Len(s))>>

\* s.split('/', 1): one part when s has no "/", else the two parts around the first
StrSplit1(s) ==
    LET i == FirstSlash(s, 1)
    IN  IF i = 0 THEN <<s>>
        ELSE <<SubSeq(s, 1, i - 1), SubSeq(s, i + 1, Len(s))>>

\* uri.replace('gs://', '').split('/', 1)
ParseUri(uri) == StrSplit1(StrReplaceGs(uri))

\* the tuple assignment "bucket_name, source_blob_name = ..." raises ValueError
\* unless the split produced exactly two parts
ParseOk(uri) == Len(ParseUri(uri)) = 2

\* os.path.join(a, b) of posixpath
PathJoin(a, b) ==
    IF b # <<>> /\ Head(b) = "/" THEN b
    ELSE IF a = <<>> \/ a[Len(a)] = "/" THEN a \o b
    ELSE a \o <<"/">> \o b

\* the components a path string resolves to (empty components dropped)
RECURSIVE Comps(_)
Comps(p) ==
    IF p = <<>> THEN <<>>
    ELSE IF Head(p) = "/" THEN Comps(Tail(p))
    ELSE <<Head(p)>> \o Comps(Tail(p))

EndsWithSlash(p) == p # <<>> /\ p[Len(p)] = "/"

IsPrefix(d, p) == Len(d) <= Len(p) /\ SubSeq(p, 1, Len(d)) = d

Parent(cs) == SubSeq(cs, 1, Len(cs) - 1)

\* uuid.uuid4() as text. Every value drawn is fresh: the value drawn by call c
\* at its k-th uuid4() call site (k = 1, 2) is number 2 * (c - 1) + k.
Uuid4(c, k) == 2 * (c - 1) + k

UuidText == <<"u1", "u2", "u3", "u4", "u5", "u6", "u7", "u8">>

\* f"stitched_{uuid.uuid4()}.mp4"
StitchedText == <<"stitched_u1.mp4", "stitched_u2.mp4", "stitched_u3.mp4",
                  "stitched_u4.mp4", "stitched_u5.mp4", "stitched_u6.mp4",
                  "stitched_u7.mp4", "stitched_u8.mp4">>

\* f'/tmp/{uuid.uuid4()}'
LocalDirOf(n) == <<"/", "tmp", "/", UuidText[n]>>

\* a file name that does not depend on the value drawn
OutputFilenameFixed(n) == <<"stitched.mp4">>

OutputFilenameOf(n) == <<StitchedText[n]>>

\* f"gs://{bucket_name}/{output_filename}"
OutputUriOf(bucket, filename) == GsPrefix \o bucket \o <<"/">> \o filename

\* ------------------------------------------------------------ environment
Bk1 == <<"bk1">>
Bk2 == <<"bk2">>

\* the objects of the store before any call: <<bucket, key>> -> frames
InitialObjects ==
    (<<Bk1, <<"a.mp4">>>> :> <<"a1", "a2">>) @@
    (<<Bk2, <<"a.mp4">>>> :> <<"c1">>) @@
    (<<Bk1, <<"b.mp4">>>> :> <<"b1", "b2", "b3">>) @@
    (<<Bk1, <<"d", "/", "x.mp4">>>> :> <<"d1">>) @@
    (<<Bk1, <<"/", "abs.mp4">>>> :> <<"e1">>)

\* the references a caller may pass
Refs ==
    { GsPrefix \o Bk1 \o <<"/", "a.mp4">>,
      GsPrefix \o Bk2 \o <<"/", "a.mp4">>,
      GsPrefix \o Bk1 \o <<"/", "b.mp4">>,
      Bk1 \o <<"/", "b.mp4">>,
      GsPrefix \o Bk1,
      GsPrefix \o Bk1 \o <<"/">>,
      GsPrefix \o Bk1 \o <<"/", "d", "/", "x.mp4">>,
      GsPrefix \o Bk1 \o <<"/", "/", "abs.mp4">>,
      <<"s3:", "/", "/">> \o Bk1 \o <<"/", "a.mp4">>,
      GsPrefix \o Bk1 \o <<"/", "missing.mp4">> }

\* the argument pairs of the concurrent scenario: the same two references,
\* in either order
ConcPairs ==
    { <<GsPrefix \o Bk1 \o <<"/", "b.mp4">>, GsPrefix \o Bk2 \o <<"/", "a.mp4">>>>,
      <<GsPrefix \o Bk2 \o <<"/", "a.mp4">>, GsPrefix \o Bk1 \o <<"/", "b.mp4">>>> }

NoClip == [bound |-> FALSE, frames |-> <<>>, closed |-> FALSE]

NoValue == [kind |-> "unset", uri |-> <<>>]

NoneValue == [kind |-> "None", uri |-> <<>>]

UriValue(u) == [kind |-> "uri", uri |-> u]

\* ------------------------------------------------------------------ state
VARIABLES
    dirs,              \* local filesystem: the directories (component sequences)
    files,             \* local filesystem: file -> content (frames)
    gcs,               \* the remote store: <<bucket, key>> -> content
    uploads,           \* upload_from_filename calls made: [call, bucket, key, ok]
    pc,                \* per call: the statement it is at
    uris,              \* per call: <<gcs_video_uri_1, gcs_video_uri_2>>
    loop_i,            \* per call: position of the for loop in video_uris
    local_dir,
    bucket_name,
    source_blob_name,
    local_file_paths,
    clip1,
    clip2,
    output_filename,
    local_output_path,
    ret,               \* per call: the value of the return statement executed
    outcome,           \* per call: "running", "returned" or "raised"
    trace,             \* per call: the steps attempted, in order, with their result
    faults,            \* failures the environment has injected so far
    db,                \* Firestore: <<collection, document id>> -> document data
    fsOps,             \* Firestore tool calls made so far
    fsLast,            \* the last Firestore tool call: arguments, db before, result
    gen_fn,            \* per generation call: "veo", "imagen" or "none"
    gen_pc,            \* per generation call: the statement it is at
    gcs_uri,           \* per generation call: the output prefix it asked for
    operation,         \* per generation call: the operation object it holds
    polls,             \* per generation call: client.operations.get calls made
    gen_ret,           \* per generation call: the value returned
    gen_trace          \* per generation call: the steps attempted, in order

shared == <<dirs, files, gcs, uploads>>

locals == <<loop_i, local_dir, bucket_name, source_blob_name, local_file_paths,
            clip1, clip2, output_filename, local_output_path>>

mergeVars == <<shared, pc, uris, locals, ret, outcome, trace>>

fsVars == <<db, fsOps, fsLast>>

genVars == <<gen_fn, gen_pc, gcs_uri, operation, polls, gen_ret, gen_trace>>

vars == <<shared, pc, uris, locals, ret, outcome, trace, faults, db, fsOps, fsLast,
         gen_fn, gen_pc, gcs_uri, operation, polls, gen_ret, gen_trace>>

Step(name, ok) == [step |-> name, ok |-> ok]

Log(c, name, ok) == trace' = [trace EXCEPT ![c] = Append(@, Step(name, ok))]

\* the environment lets an external operation succeed (ok) or makes it fail
Inject(ok) ==
    /\ ok \/ faults < MaxFaults
    /\ faults' = IF ok THEN faults ELSE faults + 1

\* ---------------------------------------------------------- filesystem
\* every prefix of cs, cs included: what os.makedirs creates
Prefixes(cs) == { SubSeq(cs, 1, n) : n \in 0..Len(cs) }

\* open(path, "wb") succeeds: the parent is a directory and path is not one
CanOpenForWrite(path) ==
    LET cs == Comps(path)
    IN  /\ ~EndsWithSlash(path)
        /\ cs # <<>>
        /\ Parent(cs) \in dirs
        /\ cs \notin dirs

WriteFile(fs, path, content) ==
    LET cs == Comps(path)
    IN  [p \in (DOMAIN fs) \cup {cs} |-> IF p = cs THEN content ELSE fs[p]]

RemoveFile(fs, path) ==
    [p \in (DOMAIN fs) \ {Comps(path)} |-> fs[p]]

\* os.path.exists(path)
PathExists(path) == Comps(path) \in dirs \/ Comps(path) \in DOMAIN files

\* a removal that leaves the directories in place
RmtreeDirsSkipped(root) == dirs

\* shutil.rmtree(root): what is left of the directories and of the files
RmtreeDirs(root) == { d \in dirs : ~IsPrefix(Comps(root), d) }

RmtreeFiles(root) ==
    [p \in { q \in DOMAIN files : ~IsPrefix(Comps(root), q) } |-> files[p]]

\* ------------------------------------------------------------ Firestore
\* Messages are sequences of tokens: the fixed text of the f-string, then the
\* values it interpolates. (adk/genmedia_agent words the same messages in Chinese.)
Collections == {"products", "ads"}

\* document_data values: two dictionaries, and a string, which is no dictionary
Dicts == {"dictA", "dictB"}

DataValues == Dicts \cup {"text"}

\* document_id values: None, the empty string, an ID
DocumentIds == {Null, "", "d1"}

\* the IDs Firestore generates, in the order it generates them
AutoIdText == <<"g1", "g2", "g3", "g4", "g5", "g6">>

AutoIds == { AutoIdText[n] : n \in DOMAIN AutoIdText }

\* the order in which stream() yields the documents of a collection
IdOrder == <<"d1", "g1", "g2", "g3", "g4", "g5", "g6">>

\* isinstance(document_data, dict) taken to hold of every value
IsDictAlways(data) == TRUE

\* isinstance(document_data, dict)
IsDict(data) == data \in Dicts

\* "if document_id:": None and the empty string are false
Truthy(document_id) == document_id \notin {Null, ""}

\* json.dumps(doc.to_dict(), indent=2, ensure_ascii=False)
JsonDumps(data) == IF data = "dictA" THEN "{\"k\": \"a\"}" ELSE "{\"k\": \"b\"}"

\* a write that keeps a document that exists
DbSetIfAbsent(d, key, data) ==
    [k \in (DOMAIN d) \cup {key} |-> IF k \in DOMAIN d THEN d[k] ELSE data]

\* doc_ref.set(document_data): the document is written, replacing an existing one
DbSet(d, key, data) ==
    [k \in (DOMAIN d) \cup {key} |-> IF k = key THEN data ELSE d[k]]

\* the ID collection_ref.add() generates: one no document has
NewAutoId(d) ==
    AutoIdText[Cardinality({ k \in DOMAIN d : k[2] \in AutoIds }) + 1]

\* the tokens id, data, id, data, ... of the documents with the given keys,
\* in the order of IdOrder
RECURSIVE ResultsFrom(_, _, _)
ResultsFrom(d, keys, n) ==
    IF n > Len(IdOrder) THEN <<>>
    ELSE LET here == { k \in keys : k[2] = IdOrder[n] }
         IN  (IF here = {} THEN <<>>
              ELSE LET k == CHOOSE x \in here : TRUE
                   IN  <<k[2], JsonDumps(d[k])>>)
                 \o ResultsFrom(d, { k \in keys : k[2] # IdOrder[n] }, n + 1)

\* a stream() that yields a document of every collection
StreamAllDocs(d, collection) == ResultsFrom(d, DOMAIN d, 1)

\* for doc in db.collection(collection_name).stream():
\*     results.append({"id": doc.id, "data": doc.to_dict()})
StreamDocs(d, collection) ==
    ResultsFrom(d, { k \in DOMAIN d : k[1] = collection }, 1)

NotDictMsg == <<"Error: The data to be stored must be in dictionary format.">>

StoredMsg(collection, id) ==
    <<"Data successfully stored in collection", collection, "with document ID", id>>

StoredAutoMsg(collection, id) ==
    <<"Data successfully stored in collection", collection,
      "with auto-generated document ID", id>>

StoreErrorMsg == <<"An error occurred while storing data to Firestore:">>

FoundMsg(collection, id, data) ==
    <<"Document", id, "found in collection", collection, JsonDumps(data)>>

NotFoundMsg(collection, id) == <<"Document", id, "not found in collection", collection>>

FoundAllMsg(collection, results) ==
    <<"Found the following documents in collection", collection>> \o results

NoDocumentsMsg(collection) == <<"No documents found in collection", collection>>

ReadErrorMsg == <<"An error occurred while reading from Firestore:">>

NoCall ==
    [op |-> "none", collection |-> "", document_id |-> "", document_data |-> "",
     before |-> <<>>, msg |-> <<>>, raised |-> FALSE, api |-> <<>>]

\* the documents of the database before the first tool call
InitialDocs ==
    (<<"products", "d1">> :> "dictA") @@ (<<"ads", "g1">> :> "dictB")

\* ----------------------------------------------------- Imagen and Veo
\* bucket_id = os.getenv("GCS_BUCKET_NAME")
BucketId == <<"bk1">>

\* now.strftime("%Y-%m-%d_%H-%M-%S"): the calls of a run are made in different seconds
TimestampText == <<"t1", "t2", "t3", "t4">>

\* gcs_uri = f"gs://{bucket_id}/images/{timestamp_str}", and the same with videos
GcsUriOf(folder, c) == GsPrefix \o BucketId \o <<"/", folder, "/", TimestampText[c]>>

\* operation.response: absent, or present with generated_videos None, [] or one video
Responses == {"none", "no_list", "empty_list", "one_video"}

\* operation.error: absent, or an error with a message
Errors == {"none", "quota exceeded"}

NoOperation == [done |-> FALSE, error |-> "none", response |-> "unset"]

\* an operation that is still running
Running == [done |-> FALSE, error |-> "none", response |-> "none"]

\* what generate_videos and operations.get may hand back
Operations == {Running} \cup [done : {TRUE}, error : Errors, response : Responses]

\* what generate_images may hand back: a response with one image or with none
\* (every image filtered)
ImageResponses ==
    { [done |-> TRUE, error |-> "none", response |-> r] : r \in {"one_image", "no_image"} }

\* the URI of the video the service wrote under the prefix it was given
VideoUriOf(prefix) == prefix \o <<"/", "sample_0.mp4">>

PollErrorMsg == <<"Error while polling operation status:">>

OperationFailedMsg(error) == <<"Operation failed:", error>>

NoResponseMsg == <<"Operation complete, but no expected response was received.">>

GenUnset == [kind |-> "unset", value |-> <<>>]

\* return value
GenReturned(value) == [kind |-> "returned", value |-> value]

\* an exception that leaves the function
GenRaised(name) == [kind |-> "raised", value |-> <<name>>]

\* lines 207-219: what the call does with the operation that is done
AfterLoop(op, prefix) ==
    IF op.error # "none" THEN GenReturned(OperationFailedMsg(op.error))
    ELSE IF op.response # "none"
    THEN IF op.response = "one_video" THEN GenReturned(VideoUriOf(prefix))
         ELSE IF op.response = "empty_list" THEN GenRaised("IndexError")
         ELSE GenRaised("TypeError")
    ELSE GenReturned(NoResponseMsg)

\* ------------------------------------------------------------------ Init
InitShared ==
    /\ dirs = {<<>>, <<"tmp">>}
    /\ files = <<>>
    /\ gcs = InitialObjects
    /\ uploads = <<>>
    /\ faults = 0

\* no Firestore tool is called
InitFsIdle ==
    /\ db = <<>>
    /\ fsOps = MaxOps
    /\ fsLast = NoCall

InitGenLocals ==
    /\ gen_fn = [c \in Calls |-> "none"]
    /\ gcs_uri = [c \in Calls |-> <<>>]
    /\ operation = [c \in Calls |-> NoOperation]
    /\ polls = [c \in Calls |-> 0]
    /\ gen_ret = [c \in Calls |-> GenUnset]
    /\ gen_trace = [c \in Calls |-> <<>>]

\* no generation tool is called
InitGenIdle ==
    /\ InitGenLocals
    /\ gen_pc = [c \in Calls |-> "unused"]

\* no merge_videos call is made
InitMergeIdle ==
    /\ pc = [c \in Calls |-> "unused"]
    /\ uris = [c \in Calls |-> <<<<>>, <<>>>>]

InitLocals ==
    /\ loop_i = [c \in Calls |-> 1]
    /\ local_dir = [c \in Calls |-> <<>>]
    /\ bucket_name = [c \in Calls |-> <<>>]
    /\ source_blob_name = [c \in Calls |-> <<>>]
    /\ local_file_paths = [c \in Calls |-> <<>>]
    /\ clip1 = [c \in Calls |-> NoClip]
    /\ clip2 = [c \in Calls |-> NoClip]
    /\ output_filename = [c \in Calls |-> <<>>]
    /\ local_output_path = [c \in Calls |-> <<>>]
    /\ ret = [c \in Calls |-> NoValue]
    /\ outcome = [c \in Calls |-> "running"]
    /\ trace = [c \in Calls |-> <<>>]

\* one call of merge_videos, with any two references
Init ==
    /\ InitShared
    /\ InitLocals
    /\ InitFsIdle
    /\ InitGenIdle
    /\ pc = [c \in Calls |-> IF c = 1 THEN "start" ELSE "unused"]
    /\ \E a \in Refs, b \in Refs :
           uris = [c \in Calls |-> IF c = 1 THEN <<a, b>> ELSE <<<<>>, <<>>>>]

\* the argument pairs of the concurrent scenario with any key: a key that
\* begins with "/" and a plain key
AnyKeyPairs ==
    { <<GsPrefix \o Bk1 \o <<"/", "/", "abs.mp4">>, GsPrefix \o Bk1 \o <<"/", "b.mp4">>>>,
      <<GsPrefix \o Bk1 \o <<"/", "b.mp4">>, GsPrefix \o Bk1 \o <<"/", "/", "abs.mp4">>>> }

\* MaxCalls calls of merge_videos in flight at once, with any key
InitConcAnyKey ==
    /\ InitShared
    /\ InitLocals
    /\ InitFsIdle
    /\ InitGenIdle
    /\ pc = [c \in Calls |-> "start"]
    /\ uris \in [Calls -> AnyKeyPairs]

\* the Firestore tools, called up to MaxOps times on an empty or a filled database
InitFs ==
    /\ InitShared
    /\ InitLocals
    /\ InitMergeIdle
    /\ InitGenIdle
    /\ db \in {<<>>, InitialDocs}
    /\ fsOps = 0
    /\ fsLast = NoCall

\* the generation tools, called MaxCalls times, one call after the other
InitGen ==
    /\ InitShared
    /\ InitLocals
    /\ InitMergeIdle
    /\ InitFsIdle
    /\ InitGenLocals
    /\ gen_pc = [c \in Calls |-> "start"]

\* MaxCalls calls of merge_videos in flight at once
InitConc ==
    /\ InitShared
    /\ InitLocals
    /\ InitFsIdle
    /\ InitGenIdle
    /\ pc = [c \in Calls |-> "start"]
    /\ uris \in [Calls -> ConcPairs]

\* --------------------------------------------------------------- actions
\* an exception inside the try block: "except Exception: return None", then finally
Except(c) ==
    /\ ret' = [ret EXCEPT ![c] = NoneValue]
    /\ pc' = [pc EXCEPT ![c] = "close1"]

\* an exception outside the try block or inside the finally block reaches the caller
Raise(c) ==
    /\ outcome' = [outcome EXCEPT ![c] = "raised"]
    /\ pc' = [pc EXCEPT ![c] = "done"]

\* local_dir = f'/tmp/{uuid.uuid4()}'; os.makedirs(local_dir, exist_ok=True)
MakeDirs(c) ==
    /\ pc[c] = "start"
    /\ local_dir' = [local_dir EXCEPT ![c] = LocalDirOf(Uuid4(c, 1))]
    /\ \E ok \in BOOLEAN :
        /\ Inject(ok)
        /\ Log(c, "makedirs", ok)
        /\ IF ok
           THEN /\ dirs' = dirs \cup Prefixes(Comps(LocalDirOf(Uuid4(c, 1))))
                /\ pc' = [pc EXCEPT ![c] = "client"]
                /\ UNCHANGED outcome
           ELSE /\ Raise(c)
                /\ UNCHANGED dirs
    /\ UNCHANGED <<files, gcs, uploads, uris, loop_i, bucket_name, source_blob_name,
                   local_file_paths, clip1, clip2, output_filename,
                   local_output_path, ret>>
    /\ UNCHANGED fsVars
    /\ UNCHANGED genVars

\* storage_client = storage.Client(); local_output_path = None
NewClient(c) ==
    /\ pc[c] = "client"
    /\ \E ok \in BOOLEAN :
        /\ Inject(ok)
        /\ Log(c, "client", ok)
        /\ IF ok
           THEN /\ pc' = [pc EXCEPT ![c] = "parse"]
                /\ UNCHANGED outcome
           ELSE Raise(c)
    /\ UNCHANGED <<shared, uris, locals, ret>>
    /\ UNCHANGED fsVars
    /\ UNCHANGED genVars

\* bucket_name, source_blob_name = uri.replace('gs://', '').split('/', 1)
Parse(c) ==
    /\ pc[c] = "parse"
    /\ LET uri == uris[c][loop_i[c]]
           ok == ParseOk(uri)
       IN  /\ Log(c, IF loop_i[c] = 1 THEN "parse1" ELSE "parse2", ok)
           /\ IF ok
              THEN /\ bucket_name' = [bucket_name EXCEPT ![c] = ParseUri(uri)[1]]
                   /\ source_blob_name' =
                          [source_blob_name EXCEPT ![c] = ParseUri(uri)[2]]
                   /\ pc' = [pc EXCEPT ![c] = "download"]
                   /\ UNCHANGED ret
              ELSE /\ Except(c)
                   /\ UNCHANGED <<bucket_name, source_blob_name>>
    /\ UNCHANGED <<shared, uris, loop_i, local_dir, local_file_paths, clip1, clip2,
                   output_filename, local_output_path, outcome, faults>>
    /\ UNCHANGED fsVars
    /\ UNCHANGED genVars

\* local_file_path = os.path.join(local_dir, source_blob_name)
LocalFilePath(dir, blob) == PathJoin(dir, blob)

\* a loop that ends after its first iteration
AfterDownloadBreak(i) == "open1"

\* for uri in video_uris: the next reference after the first download, the
\* decode step after the second
AfterDownload(i) == IF i = 1 THEN "parse" ELSE "open1"

\* blob.download_to_filename(local_file_path); local_file_paths.append(...)
\* The file is opened for writing first; a missing object removes the file again,
\* an interrupted transfer leaves what was written.
Download(c) ==
    /\ pc[c] = "download"
    /\ LET path == LocalFilePath(local_dir[c], source_blob_name[c])
           obj == <<bucket_name[c], source_blob_name[c]>>
           name == IF loop_i[c] = 1 THEN "download1" ELSE "download2"
       IN  \/ /\ ~CanOpenForWrite(path)
              /\ UNCHANGED faults
              /\ Log(c, name, FALSE)
              /\ Except(c)
              /\ UNCHANGED <<files, local_file_paths, loop_i>>
           \/ /\ CanOpenForWrite(path)
              /\ obj \notin DOMAIN gcs
              /\ UNCHANGED faults
              /\ Log(c, name, FALSE)
              /\ files' = RemoveFile(files, path)
              /\ Except(c)
              /\ UNCHANGED <<local_file_paths, loop_i>>
           \/ /\ CanOpenForWrite(path)
              /\ obj \in DOMAIN gcs
              /\ Inject(FALSE)
              /\ Log(c, name, FALSE)
              /\ files' = WriteFile(files, path, <<>>)
              /\ Except(c)
              /\ UNCHANGED <<local_file_paths, loop_i>>
           \/ /\ CanOpenForWrite(path)
              /\ obj \in DOMAIN gcs
              /\ Inject(TRUE)
              /\ Log(c, name, TRUE)
              /\ files' = WriteFile(files, path, gcs[obj])
              /\ local_file_paths' = [local_file_paths EXCEPT ![c] = Append(@, path)]
              /\ loop_i' = [loop_i EXCEPT ![c] = IF @ = 1 THEN 2 ELSE @]
              /\ pc' = [pc EXCEPT ![c] = AfterDownload(loop_i[c])]
              /\ UNCHANGED ret
    /\ UNCHANGED <<dirs, gcs, uploads, uris, local_dir, bucket_name,
                   source_blob_name, clip1, clip2, output_filename,
                   local_output_path, outcome>>
    /\ UNCHANGED fsVars
    /\ UNCHANGED genVars

\* VideoFileClip(path): a handle over the frames the file holds
VideoFileClip(path) ==
    [bound |-> TRUE, frames |-> files[Comps(path)], closed |-> FALSE]

\* clip1 = VideoFileClip(local_file_paths[0])
OpenClip1(c) ==
    /\ pc[c] = "open1"
    /\ \E ok \in BOOLEAN :
        /\ Inject(ok)
        /\ Log(c, "open1", ok)
        /\ IF ok
           THEN /\ clip1' = [clip1 EXCEPT ![c] = VideoFileClip(local_file_paths[c][1])]
                /\ pc' = [pc EXCEPT ![c] = "open2"]
                /\ UNCHANGED ret
           ELSE /\ Except(c)
                /\ UNCHANGED clip1
    /\ UNCHANGED <<shared, uris, loop_i, local_dir, bucket_name, source_blob_name,
                   local_file_paths, clip2, output_filename, local_output_path,
                   outcome>>
    /\ UNCHANGED fsVars
    /\ UNCHANGED genVars

\* clip2 = VideoFileClip(local_file_paths[1])
OpenClip2(c) ==
    /\ pc[c] = "open2"
    /\ \E ok \in BOOLEAN :
        /\ Inject(ok)
        /\ Log(c, "open2", ok)
        /\ IF ok
           THEN /\ clip2' = [clip2 EXCEPT ![c] = VideoFileClip(local_file_paths[c][2])]
                /\ pc' = [pc EXCEPT ![c] = "encode"]
                /\ UNCHANGED ret
           ELSE /\ Except(c)
                /\ UNCHANGED clip2
    /\ UNCHANGED <<shared, uris, loop_i, local_dir, bucket_name, source_blob_name,
                   local_file_paths, clip1, output_filename, local_output_path,
                   outcome>>
    /\ UNCHANGED fsVars
    /\ UNCHANGED genVars

\* concatenate_videoclips([clip1, clip2])
ConcatenateVideoclips(a, b) == a.frames \o b.frames

\* final_clip = concatenate_videoclips([clip1, clip2])
\* output_filename = f"stitched_{uuid.uuid4()}.mp4"
\* local_output_path = os.path.join(local_dir, output_filename)
\* final_clip.write_videofile(local_output_path, codec="libx264")
\* A failed write leaves either nothing or a partial file.
ConcatAndWrite(c) ==
    /\ pc[c] = "encode"
    /\ LET fname == OutputFilenameOf(Uuid4(c, 2))
           path == PathJoin(local_dir[c], fname)
       IN  /\ output_filename' = [output_filename EXCEPT ![c] = fname]
           /\ local_output_path' = [local_output_path EXCEPT ![c] = path]
           /\ \/ /\ CanOpenForWrite(path)
                 /\ Inject(TRUE)
                 /\ Log(c, "encode", TRUE)
                 /\ files' = WriteFile(files, path,
                                       ConcatenateVideoclips(clip1[c], clip2[c]))
                 /\ pc' = [pc EXCEPT ![c] = "upload"]
                 /\ UNCHANGED ret
              \/ /\ CanOpenForWrite(path)
                 /\ Inject(FALSE)
                 /\ Log(c, "encode", FALSE)
                 /\ files' = WriteFile(files, path, <<>>)
                 /\ Except(c)
              \/ /\ IF CanOpenForWrite(path) THEN Inject(FALSE) ELSE UNCHANGED faults
                 /\ Log(c, "encode", FALSE)
                 /\ UNCHANGED files
                 /\ Except(c)
    /\ UNCHANGED <<dirs, gcs, uploads, uris, loop_i, local_dir, bucket_name,
                   source_blob_name, local_file_paths, clip1, clip2, outcome>>
    /\ UNCHANGED fsVars
    /\ UNCHANGED genVars

\* an upload to the bucket of the first reference
OutputBucketFirst(c) == ParseUri(uris[c][1])[1]

\* output_bucket = storage_client.bucket(bucket_name): the name the loop bound last
OutputBucket(c) == bucket_name[c]

\* output_gcs_uri = f"gs://{bucket_name}/{output_filename}"
\* output_blob.upload_from_filename(local_output_path); return output_gcs_uri
Upload(c) ==
    /\ pc[c] = "upload"
    /\ LET bucket == OutputBucket(c)
           key == output_filename[c]
       IN  \E ok \in BOOLEAN :
            /\ Inject(ok)
            /\ Log(c, "upload", ok)
            /\ uploads' = Append(uploads, [call |-> c, bucket |-> bucket,
                                            key |-> key, ok |-> ok])
            /\ IF ok
               THEN /\ gcs' = [o \in (DOMAIN gcs) \cup {<<bucket, key>>} |->
                                  IF o = <<bucket, key>>
                                  THEN files[Comps(local_output_path[c])]
                                  ELSE gcs[o]]
                    /\ ret' = [ret EXCEPT ![c] =
                                  UriValue(OutputUriOf(bucket_name[c], key))]
                    /\ pc' = [pc EXCEPT ![c] = "close1"]
               ELSE /\ Except(c)
                    /\ UNCHANGED gcs
    /\ UNCHANGED <<dirs, files, uris, locals, outcome>>
    /\ UNCHANGED fsVars
    /\ UNCHANGED genVars

\* finally: if 'clip1' in locals() and clip1: clip1.close()
CloseClip1(c) ==
    /\ pc[c] = "close1"
    /\ IF clip1[c].bound
       THEN \E ok \in BOOLEAN :
             /\ Inject(ok)
             /\ Log(c, "close1", ok)
             /\ IF ok
                THEN /\ clip1' = [clip1 EXCEPT ![c].closed = TRUE]
                     /\ pc' = [pc EXCEPT ![c] = "close2"]
                     /\ UNCHANGED outcome
                ELSE /\ Raise(c)
                     /\ UNCHANGED clip1
       ELSE /\ pc' = [pc EXCEPT ![c] = "close2"]
            /\ UNCHANGED <<clip1, outcome, trace, faults>>
    /\ UNCHANGED <<shared, uris, loop_i, local_dir, bucket_name, source_blob_name,
                   local_file_paths, clip2, output_filename, local_output_path, ret>>
    /\ UNCHANGED fsVars
    /\ UNCHANGED genVars

\* finally: if 'clip2' in locals() and clip2: clip2.close()
CloseClip2(c) ==
    /\ pc[c] = "close2"
    /\ IF clip2[c].bound
       THEN \E ok \in BOOLEAN :
             /\ Inject(ok)
             /\ Log(c, "close2", ok)
             /\ IF ok
                THEN /\ clip2' = [clip2 EXCEPT ![c].closed = TRUE]
                     /\ pc' = [pc EXCEPT ![c] = "rmtree"]
                     /\ UNCHANGED outcome
                ELSE /\ Raise(c)
                     /\ UNCHANGED clip2
       ELSE /\ pc' = [pc EXCEPT ![c] = "rmtree"]
            /\ UNCHANGED <<clip2, outcome, trace, faults>>
    /\ UNCHANGED <<shared, uris, loop_i, local_dir, bucket_name, source_blob_name,
                   local_file_paths, clip1, output_filename, local_output_path, ret>>
    /\ UNCHANGED fsVars
    /\ UNCHANGED genVars

\* the function returns the value of the return statement that ran
Return(c) ==
    /\ outcome' = [outcome EXCEPT ![c] = "returned"]
    /\ pc' = [pc EXCEPT ![c] = "done"]

\* finally: if local_dir and os.path.exists(local_dir): shutil.rmtree(local_dir)
\* and then the function returns. A failing rmtree leaves the tree in place.
RemoveDir(c) ==
    /\ pc[c] = "rmtree"
    /\ IF local_dir[c] # <<>> /\ PathExists(local_dir[c])
       THEN \E ok \in BOOLEAN :
             /\ Inject(ok)
             /\ Log(c, "rmtree", ok)
             /\ IF ok
                THEN /\ dirs' = RmtreeDirs(local_dir[c])
                     /\ files' = RmtreeFiles(local_dir[c])
                     /\ Return(c)
                ELSE /\ Raise(c)
                     /\ UNCHANGED <<dirs, files>>
       ELSE /\ Return(c)
            /\ UNCHANGED <<dirs, files, trace, faults>>
    /\ UNCHANGED <<gcs, uploads, uris, locals, ret>>
    /\ UNCHANGED fsVars
    /\ UNCHANGED genVars

Next ==
    \E c \in Calls :
        \/ MakeDirs(c)
        \/ NewClient(c)
        \/ Parse(c)
        \/ Download(c)
        \/ OpenClip1(c)
        \/ OpenClip2(c)
        \/ ConcatAndWrite(c)
        \/ Upload(c)
        \/ CloseClip1(c)
        \/ CloseClip2(c)
        \/ RemoveDir(c)

Spec == Init /\ [][Next]_vars

SpecConc == InitConc /\ [][Next]_vars

SpecConcAnyKey == InitConcAnyKey /\ [][Next]_vars

\* ---------------------------------------------------- Firestore tools
Called(op, collection, id, data, msg, raised, api) ==
    /\ fsOps' = fsOps + 1
    /\ fsLast' = [op |-> op, collection |-> collection, document_id |-> id,
                  document_data |-> data, before |-> db, msg |-> msg,
                  raised |-> raised, api |-> api]

\* store_data_in_firestore(collection_name, document_data, document_id)
StoreData(collection, data, id) ==
    /\ fsOps < MaxOps
    /\ IF ~IsDict(data)
       THEN /\ Called("store", collection, id, data, NotDictMsg, FALSE, <<>>)
            /\ UNCHANGED <<db, faults>>
       ELSE IF Truthy(id)
       THEN \E ok \in BOOLEAN :
             /\ Inject(ok)
             /\ IF ok
                THEN /\ db' = DbSet(db, <<collection, id>>, data)
                     /\ Called("store", collection, id, data,
                               StoredMsg(collection, id), FALSE,
                               <<"collection", "document", "set">>)
                ELSE /\ UNCHANGED db
                     /\ Called("store", collection, id, data, StoreErrorMsg, TRUE,
                               <<"collection", "document", "set">>)
       ELSE \E ok \in BOOLEAN :
             /\ Inject(ok)
             /\ IF ok
                THEN /\ db' = DbSet(db, <<collection, NewAutoId(db)>>, data)
                     /\ Called("store", collection, id, data,
                               StoredAutoMsg(collection, NewAutoId(db)), FALSE,
                               <<"collection", "add">>)
                ELSE /\ UNCHANGED db
                     /\ Called("store", collection, id, data, StoreErrorMsg, TRUE,
                               <<"collection", "add">>)
    /\ UNCHANGED mergeVars
    /\ UNCHANGED genVars

\* read_data_from_firestore(collection_name, document_id)
ReadData(collection, id) ==
    /\ fsOps < MaxOps
    /\ \E ok \in BOOLEAN :
        /\ Inject(ok)
        /\ IF ~ok
           THEN Called("read", collection, id, "", ReadErrorMsg, TRUE,
                       IF Truthy(id) THEN <<"collection", "document", "get">>
                       ELSE <<"collection", "stream">>)
           ELSE IF Truthy(id)
           THEN Called("read", collection, id, "",
                       IF <<collection, id>> \in DOMAIN db
                       THEN FoundMsg(collection, id, db[<<collection, id>>])
                       ELSE NotFoundMsg(collection, id),
                       FALSE, <<"collection", "document", "get">>)
           ELSE Called("read", collection, id, "",
                       IF StreamDocs(db, collection) # <<>>
                       THEN FoundAllMsg(collection, StreamDocs(db, collection))
                       ELSE NoDocumentsMsg(collection),
                       FALSE, <<"collection", "stream">>)
    /\ UNCHANGED db
    /\ UNCHANGED mergeVars
    /\ UNCHANGED genVars

NextFs ==
    \/ \E collection \in Collections, data \in DataValues, id \in DocumentIds :
           StoreData(collection, data, id)
    \/ \E collection \in Collections, id \in DocumentIds :
           ReadData(collection, id)

SpecFs == InitFs /\ [][NextFs]_vars

\* ------------------------------------------------- Imagen and Veo tools
GenEnded(c) == gen_pc[c] \in {"unused", "returned", "raised"}

\* the calls are made one after the other
MayStart(c) == gen_pc[c] = "start" /\ \A d \in Calls : d < c => GenEnded(d)

GenLog(c, name, ok) == gen_trace' = [gen_trace EXCEPT ![c] = Append(@, Step(name, ok))]

\* the call ends: with a return statement, or with an exception nothing catches
GenEnd(c, result) ==
    /\ gen_ret' = [gen_ret EXCEPT ![c] = result]
    /\ gen_pc' = [gen_pc EXCEPT ![c] = result.kind]

\* generate_video_with_veo, lines 179-185: the client and the output prefix
VeoClient(c) ==
    /\ MayStart(c)
    /\ gen_fn' = [gen_fn EXCEPT ![c] = "veo"]
    /\ \E ok \in BOOLEAN :
        /\ Inject(ok)
        /\ GenLog(c, "client", ok)
        /\ IF ok
           THEN /\ gcs_uri' = [gcs_uri EXCEPT ![c] = GcsUriOf("videos", c)]
                /\ gen_pc' = [gen_pc EXCEPT ![c] = "generate"]
                /\ UNCHANGED gen_ret
           ELSE /\ GenEnd(c, GenRaised("client"))
                /\ UNCHANGED gcs_uri
    /\ UNCHANGED <<operation, polls>>
    /\ UNCHANGED <<mergeVars, fsVars>>

\* lines 187-197: the generation request
GenerateVideos(c) ==
    /\ gen_fn[c] = "veo"
    /\ gen_pc[c] = "generate"
    /\ \E ok \in BOOLEAN :
        /\ Inject(ok)
        /\ GenLog(c, "generate_videos", ok)
        /\ IF ok
           THEN /\ \E op \in Operations : operation' = [operation EXCEPT ![c] = op]
                /\ gen_pc' = [gen_pc EXCEPT ![c] = "loop"]
                /\ UNCHANGED gen_ret
           ELSE /\ GenEnd(c, GenRaised("generate_videos"))
                /\ UNCHANGED operation
    /\ UNCHANGED <<gen_fn, gcs_uri, polls>>
    /\ UNCHANGED <<mergeVars, fsVars>>

\* what a poll that raised leads to: the call goes round the loop again
AfterPollRaisedRetry(c) ==
    /\ UNCHANGED <<gen_pc, gen_ret, operation>>

\* lines 203-205: a poll that raised ends the call with the message
AfterPollRaised(c) ==
    /\ GenEnd(c, GenReturned(PollErrorMsg))
    /\ UNCHANGED operation

\* lines 199-205: one turn of the loop
Poll(c) ==
    /\ gen_fn[c] = "veo"
    /\ gen_pc[c] = "loop"
    /\ ~operation[c].done
    /\ polls[c] < MaxPolls
    /\ polls' = [polls EXCEPT ![c] = @ + 1]
    /\ \E ok \in BOOLEAN :
        /\ Inject(ok)
        /\ GenLog(c, "get", ok)
        /\ IF ok
           THEN /\ \E op \in Operations : operation' = [operation EXCEPT ![c] = op]
                /\ UNCHANGED <<gen_pc, gen_ret>>
           ELSE AfterPollRaised(c)
    /\ UNCHANGED <<gen_fn, gcs_uri>>
    /\ UNCHANGED <<mergeVars, fsVars>>

\* lines 207-219: the loop is over
VeoFinish(c) ==
    /\ gen_fn[c] = "veo"
    /\ gen_pc[c] = "loop"
    /\ operation[c].done
    /\ GenEnd(c, AfterLoop(operation[c], gcs_uri[c]))
    /\ UNCHANGED <<gen_fn, gcs_uri, operation, polls, gen_trace, faults>>
    /\ UNCHANGED <<mergeVars, fsVars>>

\* generate_image_with_imagen, lines 146-151: vertexai.init, the output prefix,
\* the model
ImagenModel(c) ==
    /\ MayStart(c)
    /\ gen_fn' = [gen_fn EXCEPT ![c] = "imagen"]
    /\ \E ok \in BOOLEAN :
        /\ Inject(ok)
        /\ GenLog(c, "from_pretrained", ok)
        /\ IF ok
           THEN /\ gcs_uri' = [gcs_uri EXCEPT ![c] = GcsUriOf("images", c)]
                /\ gen_pc' = [gen_pc EXCEPT ![c] = "generate"]
                /\ UNCHANGED gen_ret
           ELSE /\ GenEnd(c, GenRaised("from_pretrained"))
                /\ UNCHANGED gcs_uri
    /\ UNCHANGED <<operation, polls>>
    /\ UNCHANGED <<mergeVars, fsVars>>

\* lines 153-164: the generation request and the return
GenerateImages(c) ==
    /\ gen_fn[c] = "imagen"
    /\ gen_pc[c] = "generate"
    /\ \E ok \in BOOLEAN :
        /\ Inject(ok)
        /\ GenLog(c, "generate_images", ok)
        /\ IF ok
           THEN /\ \E op \in ImageResponses : operation' = [operation EXCEPT ![c] = op]
                /\ GenEnd(c, GenReturned(gcs_uri[c]))
           ELSE /\ GenEnd(c, GenRaised("generate_images"))
                /\ UNCHANGED operation
    /\ UNCHANGED <<gen_fn, gcs_uri, polls>>
    /\ UNCHANGED <<mergeVars, fsVars>>

GenStep(c) ==
    \/ VeoClient(c)
    \/ GenerateVideos(c)
    \/ Poll(c)
    \/ VeoFinish(c)
    \/ ImagenModel(c)
    \/ GenerateImages(c)

NextGen == \E c \in Calls : GenStep(c)

SpecGen == InitGen /\ [][NextGen]_vars

\* a call that can take a step takes it: the function runs on
SpecGenFair == InitGen /\ [][NextGen]_vars /\ \A c \in Calls : WF_vars(GenStep(c))

\* ---------------------------------------------------- what a call did
Done(c) == pc[c] = "done"

Attempted(c, name) == \E i \in DOMAIN trace[c] : trace[c][i].step = name

Failed(c, name) ==
    \E i \in DOMAIN trace[c] : trace[c][i].step = name /\ ~trace[c][i].ok

Succeeded(c, name) ==
    \E i \in DOMAIN trace[c] : trace[c][i].step = name /\ trace[c][i].ok

\* nothing is left of the /tmp/<uuid> directory of call c
WorkspaceGone(c) ==
    /\ \A d \in dirs : ~IsPrefix(Comps(local_dir[c]), d)
    /\ \A f \in DOMAIN files : ~IsPrefix(Comps(local_dir[c]), f)

\* the object a reference names
RefObject(uri) == <<ParseUri(uri)[1], ParseUri(uri)[2]>>

\* a reference to an object that exists before the call
ValidRef(uri) == ParseOk(uri) /\ RefObject(uri) \in DOMAIN InitialObjects

PipelineSteps == {"download1", "download2", "open1", "open2", "encode", "upload"}

ReleaseSteps == {"close1", "close2", "rmtree"}

\* the typed failure the design names for a failing step
ErrorOf(name) ==
    CASE name \in {"download1", "download2"} -> "FetchError"
      [] name \in {"open1", "open2"} -> "DecodeError"
      [] name = "encode" -> "EncodeError"
      [] name = "upload" -> "UploadError"

\* ----------------------------------------------------------------- C1
\* C1: on every exit path other than a failing rmtree, when the call has
\* returned or raised, its /tmp/<uuid> directory and everything under it are gone.
C1_WorkspaceRemovedOnEveryExit ==
    \A c \in Calls :
        (Done(c) /\ Succeeded(c, "makedirs") /\ ~Failed(c, "rmtree"))
            => WorkspaceGone(c)

\* ----------------------------------------------------------------- C2
\* C2: a successful merge uploads to the bucket of the first reference, and the
\* returned URI names that bucket.
C2_UploadsToFirstBucket ==
    \A c \in Calls :
        (Done(c) /\ outcome[c] = "returned" /\ ret[c].kind = "uri") =>
            /\ \A i \in DOMAIN uploads :
                   (uploads[i].call = c /\ uploads[i].ok)
                       => uploads[i].bucket = ParseUri(uris[c][1])[1]
            /\ ret[c].uri = OutputUriOf(ParseUri(uris[c][1])[1], output_filename[c])

\* ----------------------------------------------------------------- C3
\* C3: the merged output holds the frames of object A in order, followed by the
\* frames of object B in order.
C3_FramesInOrder ==
    \A i \in DOMAIN uploads :
        uploads[i].ok =>
            LET c == uploads[i].call
            IN  gcs[<<uploads[i].bucket, uploads[i].key>>] =
                    InitialObjects[RefObject(uris[c][1])]
                        \o InitialObjects[RefObject(uris[c][2])]

\* ----------------------------------------------------------------- C4
\* C4: with two references to existing objects and no external failure, the call
\* returns a reference to a new object whose duration is duration(A) + duration(B).
C4_DurationIsSum ==
    \A c \in Calls :
        (Done(c) /\ ValidRef(uris[c][1]) /\ ValidRef(uris[c][2]) /\ faults = 0) =>
            /\ outcome[c] = "returned"
            /\ ret[c].kind = "uri"
            /\ \E o \in (DOMAIN gcs) \ (DOMAIN InitialObjects) :
                   /\ ret[c].uri = OutputUriOf(o[1], o[2])
                   /\ Len(gcs[o]) = Len(InitialObjects[RefObject(uris[c][1])])
                                      + Len(InitialObjects[RefObject(uris[c][2])])

\* ----------------------------------------------------------------- C5
\* C5: once the first download has failed, the call attempts no second download,
\* no decode, no encode and no upload; when it has returned, its workspace is
\* gone, and it returns unless shutil.rmtree itself raised.
C5_FirstDownloadFailureAborts ==
    \A c \in Calls :
        Failed(c, "download1") =>
            /\ \A name \in {"parse2", "download2", "open1", "open2", "encode",
                            "upload"} : ~Attempted(c, name)
            /\ \A i \in DOMAIN uploads : uploads[i].call # c
            /\ outcome[c] = "returned" => WorkspaceGone(c)
            /\ Done(c) => (outcome[c] = "returned" \/ Failed(c, "rmtree"))

\* a call whose first download failed has returned
C5_Witness ==
    \E c \in Calls :
        /\ Failed(c, "download1")
        /\ outcome[c] = "returned"
        /\ Attempted(c, "rmtree")

\* ----------------------------------------------------------------- C6
\* C6: when the upload fails after a successful encode, the caller receives an
\* UploadError and the encoded local file has been removed.
C6_UploadFailureReported ==
    \A c \in Calls :
        (Done(c) /\ Failed(c, "upload")) =>
            /\ outcome[c] = "returned"
            /\ ret[c].kind = "UploadError"
            /\ Comps(local_output_path[c]) \notin DOMAIN files

\* ----------------------------------------------------------------- C7
\* C7: a failure of a fetch, decode, encode or upload step reaches the caller as
\* a failure value that names the failing phase, never as None.
C7_TypedFailure ==
    \A c \in Calls :
        \A name \in PipelineSteps :
            (Done(c) /\ Failed(c, name)) =>
                /\ outcome[c] = "returned"
                /\ ret[c].kind # "None"
                /\ ret[c].kind = ErrorOf(name)

\* ----------------------------------------------------------------- C8
\* C8: every call returns the URI or None; when any step failed it returns None,
\* and no exception reaches the caller.
C8_ReturnsUriOrNone ==
    \A c \in Calls :
        Done(c) =>
            /\ outcome[c] = "returned"
            /\ ret[c].kind \in {"uri", "None"}
            /\ (\E i \in DOMAIN trace[c] : ~trace[c][i].ok) => ret[c].kind = "None"

\* ----------------------------------------------------------------- C9
\* C9: a failing close or rmtree is not thrown to the caller and leaves the
\* result as it was: the URI after a successful upload, the failure otherwise.
C9_ReleaseFailureNeverThrown ==
    \A c \in Calls :
        (Done(c) /\ \E name \in ReleaseSteps : Failed(c, name)) =>
            /\ outcome[c] = "returned"
            /\ Succeeded(c, "upload") => ret[c].kind = "uri"
            /\ ~Succeeded(c, "upload") => ret[c].kind = "None"

\* ---------------------------------------------------------------- C10
\* C10: no two uploads, of the same call or of different calls, go to the same
\* bucket and key, and no upload goes to the key of an object that existed before.
C10_OutputKeysNeverCollide ==
    /\ \A i, j \in DOMAIN uploads :
           i # j => <<uploads[i].bucket, uploads[i].key>>
                        # <<uploads[j].bucket, uploads[j].key>>
    /\ \A i \in DOMAIN uploads :
           <<uploads[i].bucket, uploads[i].key>> \notin DOMAIN InitialObjects

\* two calls with the same arguments have both uploaded, to the same bucket
C10_Witness ==
    \E i, j \in DOMAIN uploads :
        /\ uploads[i].call # uploads[j].call
        /\ uploads[i].ok /\ uploads[j].ok
        /\ uploads[i].bucket = uploads[j].bucket
        /\ uris[uploads[i].call] = uris[uploads[j].call]

\* ---------------------------------------------------------------- C11
\* the steps of a call in the order of the code
StepOrder ==
    <<"makedirs", "client", "parse1", "download1", "parse2", "download2", "open1",
      "open2", "encode", "upload", "close1", "close2", "rmtree">>

StepIndex(name) == CHOOSE n \in DOMAIN StepOrder : StepOrder[n] = name

\* C11: after the first failing download, decode, encode or upload no pipeline
\* step follows (none is retried, none is attempted later), and the release
\* phase runs: every bound clip is closed and the workspace removal is attempted.
C11_FirstFailureAbortsReleaseRuns ==
    \A c \in Calls :
        /\ \A i, j \in DOMAIN trace[c] :
               (i < j /\ trace[c][i].step \in PipelineSteps /\ ~trace[c][i].ok)
                   => trace[c][j].step \in ReleaseSteps
        /\ (Done(c) /\ \E name \in PipelineSteps : Failed(c, name)) =>
               /\ clip1[c].bound => Attempted(c, "close1")
               /\ clip2[c].bound => Attempted(c, "close2")
               /\ Attempted(c, "rmtree")

\* ---------------------------------------------------------------- C12
\* the local paths call c has written
WrittenPaths(c) ==
    { Comps(local_file_paths[c][i]) : i \in DOMAIN local_file_paths[c] }
        \cup (IF Succeeded(c, "encode") THEN {Comps(local_output_path[c])} ELSE {})

\* C12: two invocations never write or delete the same local path.
C12_LocalPathsDisjoint ==
    \A c, d \in Calls :
        c # d =>
            /\ WrittenPaths(c) \cap WrittenPaths(d) = {}
            /\ \A p \in WrittenPaths(c) :
                   local_dir[d] = <<>> \/ ~IsPrefix(Comps(local_dir[d]), p)

\* ---------------------------------------------------------------- C13
\* C13: every path a call downloads to lies inside its workspace directory.
C13_DownloadPathInsideWorkspace ==
    \A c \in Calls :
        \A i \in DOMAIN local_file_paths[c] :
            /\ IsPrefix(Comps(local_dir[c]), Comps(local_file_paths[c][i]))
            /\ Len(Comps(local_file_paths[c][i])) > Len(Comps(local_dir[c]))

\* ---------------------------------------------------------------- C14
Schemes == {"gs:", "s3:"}

\* scheme://bucket-name/key-path with a bucket and a key that are not empty
WellFormed(uri) ==
    /\ Len(uri) >= 6
    /\ uri[1] \in Schemes /\ uri[2] = "/" /\ uri[3] = "/"
    /\ uri[4] # "/" /\ uri[5] = "/"

\* no "/" is left once every "gs://" is removed
NoSlash(uri) == FirstSlash(StrReplaceGs(uri), 1) = 0

ReturnedUri(c) == Done(c) /\ outcome[c] = "returned" /\ ret[c].kind = "uri"

\* C14 as stated: for a reference that is not scheme://bucket/key no download
\* is attempted and the call fails.
C14_MalformedFailsAtParsing ==
    \A c \in Calls : \A i \in 1..2 :
        (pc[c] # "unused" /\ ~WellFormed(uris[c][i])) =>
            /\ ~Attempted(c, IF i = 1 THEN "download1" ELSE "download2")
            /\ ~ReturnedUri(c)

\* C14 amended: a reference with no "/" left after the removal of "gs://" fails
\* at parsing, no download of it is attempted and the call fails; every other
\* reference (without scheme, with an empty key) passes parsing and its
\* download is attempted.
C14_NoSlashFailsAtParsing ==
    \A c \in Calls : \A i \in 1..2 :
        LET parse == IF i = 1 THEN "parse1" ELSE "parse2"
            download == IF i = 1 THEN "download1" ELSE "download2"
        IN  pc[c] # "unused" =>
              /\ NoSlash(uris[c][i]) =>
                    /\ ~Attempted(c, download)
                    /\ Attempted(c, parse) => Failed(c, parse)
                    /\ ~ReturnedUri(c)
              /\ ~NoSlash(uris[c][i]) =>
                    /\ Attempted(c, parse) => Succeeded(c, parse)
                    /\ (Done(c) /\ Attempted(c, parse)) => Attempted(c, download)

\* the second reference has no "/" and the call failed parsing it
C14_Witness ==
    \E c \in Calls :
        /\ Done(c)
        /\ NoSlash(uris[c][2])
        /\ Succeeded(c, "download1")
        /\ Failed(c, "parse2")
        /\ ret[c].kind = "None"

\* ---------------------------------------------------------------- C15
UploadsOf(c) == { i \in DOMAIN uploads : uploads[i].call = c }

\* C15: a call uploads at most once; a call that returned a URI uploaded exactly
\* once, with success, to the bucket and key its URI names; a call that failed
\* in fetch, decode or encode did not upload.
C15_OneUploadNamedByUri ==
    \A c \in Calls :
        /\ Cardinality(UploadsOf(c)) <= 1
        /\ ReturnedUri(c) =>
               /\ Cardinality(UploadsOf(c)) = 1
               /\ \A i \in UploadsOf(c) :
                      /\ uploads[i].ok
                      /\ StartsWith(ret[c].uri, GsPrefix)
                      /\ ParseUri(ret[c].uri) = <<uploads[i].bucket, uploads[i].key>>
        /\ (\E name \in PipelineSteps \ {"upload"} : Failed(c, name))
               => UploadsOf(c) = {}

\* a call with references to two buckets has returned the URI of its upload
C15_Witness ==
    \E c \in Calls :
        /\ ReturnedUri(c)
        /\ ParseUri(uris[c][1])[1] # ParseUri(uris[c][2])[1]
        /\ \E i \in UploadsOf(c) : uploads[i].ok

\* ---------------------------------------------------------------- C16
\* C16: when a call has ended, every clip it opened is closed (unless the close
\* of that clip itself raised), and the closes come before the removal of the
\* workspace.
C16_HandlesClosedBeforeDelete ==
    \A c \in Calls :
        /\ Done(c) =>
               /\ (clip1[c].bound /\ ~Failed(c, "close1")) => clip1[c].closed
               /\ (clip2[c].bound /\ ~Failed(c, "close2")) => clip2[c].closed
        /\ Attempted(c, "rmtree") =>
               /\ clip1[c].bound => clip1[c].closed
               /\ clip2[c].bound => clip2[c].closed

\* ---------------------------------------------------------------- C17
\* C17: the steps of a call follow the order of the code, none twice; no clip
\* is opened before both downloads succeeded, nothing is encoded before both
\* clips are open and nothing is uploaded before the encode succeeded.
C17_LinearOrder ==
    \A c \in Calls :
        /\ \A i, j \in DOMAIN trace[c] :
               i < j => StepIndex(trace[c][i].step) < StepIndex(trace[c][j].step)
        /\ (Attempted(c, "open1") \/ Attempted(c, "open2")) =>
               (Succeeded(c, "download1") /\ Succeeded(c, "download2"))
        /\ Attempted(c, "open2") => Succeeded(c, "open1")
        /\ Attempted(c, "encode") => (Succeeded(c, "open1") /\ Succeeded(c, "open2"))
        /\ Attempted(c, "upload") => Succeeded(c, "encode")
        /\ (\E name \in ReleaseSteps : Attempted(c, name)) => ret[c].kind # "unset"

\* a call has gone through every step and returned
C17_Witness ==
    \E c \in Calls :
        /\ ReturnedUri(c)
        /\ Len(trace[c]) = Len(StepOrder)

\* ------------------------------------------------- Firestore tool claims
Contains(msg, token) == \E i \in DOMAIN msg : msg[i] = token

\* the keys of the documents of a collection
KeysOf(d, collection) == { k \in DOMAIN d : k[1] = collection }

\* the last call was store_data_in_firestore and it did not fail
StoredOk == fsLast.op = "store" /\ ~fsLast.raised /\ fsLast.document_data \in Dicts

\* C18: a successful store of a dict under a given ID leaves that document
\* holding the data, whatever it held before, and no other document changed;
\* with no ID it adds one document under an ID no document had and changes no
\* existing document; in both cases the message contains the written ID.
C18_StoreWritesUnderId ==
    StoredOk =>
        LET key == <<fsLast.collection, fsLast.document_id>>
        IN  IF fsLast.document_id \notin {Null, ""}
            THEN /\ key \in DOMAIN db
                 /\ db[key] = fsLast.document_data
                 /\ DOMAIN db = DOMAIN fsLast.before \cup {key}
                 /\ \A k \in DOMAIN fsLast.before : k # key => db[k] = fsLast.before[k]
                 /\ Contains(fsLast.msg, fsLast.document_id)
            ELSE /\ \A k \in DOMAIN fsLast.before :
                        k \in DOMAIN db /\ db[k] = fsLast.before[k]
                 /\ \E k \in DOMAIN db :
                        /\ DOMAIN db = DOMAIN fsLast.before \cup {k}
                        /\ k \notin DOMAIN fsLast.before
                        /\ k[1] = fsLast.collection
                        /\ \A j \in DOMAIN fsLast.before : j[2] # k[2]
                        /\ db[k] = fsLast.document_data
                        /\ Contains(fsLast.msg, k[2])

\* a document was replaced by a store under its ID, and then a store with no ID
\* added a document beside it
C18_Witness ==
    /\ StoredOk
    /\ fsLast.document_id = Null
    /\ <<"products", "d1">> \in DOMAIN fsLast.before
    /\ fsLast.before[<<"products", "d1">>] = "dictB"
    /\ Cardinality(DOMAIN db) = 3

\* C19: a store whose document_data is not a dictionary returns the fixed
\* dictionary-format message, calls nothing of Firestore (no collection is
\* accessed) and leaves every document as it was.
C19_NotDictRejected ==
    (fsLast.op = "store" /\ fsLast.document_data \notin Dicts) =>
        /\ fsLast.msg = <<"Error: The data to be stored must be in dictionary format.">>
        /\ fsLast.api = <<>>
        /\ ~fsLast.raised
        /\ db = fsLast.before

\* a string was offered under the ID of an existing document
C19_Witness ==
    /\ fsLast.op = "store"
    /\ fsLast.document_data = "text"
    /\ <<fsLast.collection, fsLast.document_id>> \in DOMAIN db

\* what a read reports when the Firestore calls and json.dumps succeed
ReadReport ==
    LET key == <<fsLast.collection, fsLast.document_id>>
        keys == KeysOf(fsLast.before, fsLast.collection)
    IN  IF fsLast.document_id \notin {Null, ""}
        THEN IF key \in DOMAIN fsLast.before
             THEN /\ fsLast.msg[1] = "Document"
                  /\ fsLast.msg[2] = fsLast.document_id
                  /\ fsLast.msg[3] = "found in collection"
                  /\ fsLast.msg[Len(fsLast.msg)] = JsonDumps(fsLast.before[key])
             ELSE /\ fsLast.msg[3] = "not found in collection"
                  /\ fsLast.msg[2] = fsLast.document_id
        ELSE IF keys = {}
             THEN fsLast.msg[1] = "No documents found in collection"
             ELSE /\ fsLast.msg[1] = "Found the following documents in collection"
                  /\ Len(fsLast.msg) = 2 + 2 * Cardinality(keys)
                  /\ \A k \in keys :
                        \E i \in 3 .. Len(fsLast.msg) - 1 :
                            /\ fsLast.msg[i] = k[2]
                            /\ fsLast.msg[i + 1] = JsonDumps(fsLast.before[k])

\* C20 as stated: every read reports the document, 'not found', the documents
\* of the collection or 'No documents found', and leaves the database as it was.
C20_ReadReportsAndKeeps ==
    fsLast.op = "read" => (ReadReport /\ db = fsLast.before)

\* C20: a read that meets no exception reports the document, 'not found', the
\* documents of the collection or 'No documents found'; a read that meets one
\* returns the reading-error message; every read leaves the database as it was.
C20_ReadReportsOrError ==
    fsLast.op = "read" =>
        /\ db = fsLast.before
        /\ IF fsLast.raised
           THEN fsLast.msg[1] = "An error occurred while reading from Firestore:"
           ELSE ReadReport

\* a collection was listed while another collection held a document too
C20_Witness ==
    /\ fsLast.op = "read"
    /\ ~fsLast.raised
    /\ fsLast.document_id = Null
    /\ KeysOf(db, fsLast.collection) # {}
    /\ KeysOf(db, fsLast.collection) # DOMAIN db

\* ------------------------------------------------ Imagen and Veo claims
IsVeo(c) == gen_fn[c] = "veo"

IsImagen(c) == gen_fn[c] = "imagen"

GenOver(c) == gen_pc[c] \in {"returned", "raised"}

IsUri(value) == StartsWith(value, GsPrefix)

GenFailed(c, name) ==
    \E i \in DOMAIN gen_trace[c] : gen_trace[c][i].step = name /\ ~gen_trace[c][i].ok

\* the operation completed successfully: done, no error, one generated video
VeoSucceeded(c) ==
    /\ operation[c].done
    /\ operation[c].error = "none"
    /\ operation[c].response = "one_video"

\* C21: a generate_video_with_veo call that is over has returned, never raised;
\* it returned the video's URI when the operation completed successfully, and
\* a message that is no URI when the request could not be started, a poll
\* raised, the operation ended with an error, or it was done with no or an
\* empty list of videos.
C21_VeoAlwaysReturnsString ==
    \A c \in Calls :
        (IsVeo(c) /\ GenOver(c)) =>
            /\ gen_ret[c].kind = "returned"
            /\ IF VeoSucceeded(c)
               THEN gen_ret[c].value = VideoUriOf(gcs_uri[c])
               ELSE ~IsUri(gen_ret[c].value) /\ gen_ret[c].value # <<>>

\* the image generation succeeded: the request returned a response with an image
ImagenSucceeded(c) ==
    /\ ~GenFailed(c, "from_pretrained")
    /\ ~GenFailed(c, "generate_images")
    /\ operation[c].response = "one_image"

\* C22: a generate_image_with_imagen call that is over has returned, never
\* raised; when the generation succeeded it returned the GCS URI, and when it
\* failed it returned a message that is no URI.
C22_ImagenUriOnlyOnSuccess ==
    \A c \in Calls :
        (IsImagen(c) /\ GenOver(c)) =>
            /\ gen_ret[c].kind = "returned"
            /\ IF ImagenSucceeded(c)
               THEN gen_ret[c].value = gcs_uri[c] /\ IsUri(gcs_uri[c])
               ELSE ~IsUri(gen_ret[c].value)

\* the last step of the call was a poll that raised
LastPollRaised(c) ==
    /\ gen_trace[c] # <<>>
    /\ gen_trace[c][Len(gen_trace[c])] = Step("get", FALSE)

\* the loop of the call can end: the operation reports done, or a poll raised
LoopExit(c) == IsVeo(c) /\ (operation[c].done \/ LastPollRaised(c))

VeoReturned(c) == IsVeo(c) /\ gen_pc[c] = "returned"

\* C23: a generate_video_with_veo call whose operation at some time reports
\* done, or one of whose polls raises, eventually returns; and a call returns
\* only then: while the operation is not done and no poll has raised, the call
\* stays in the loop, however many polls it has made.
C23_PollingTerminates ==
    \A c \in Calls :
        /\ [](VeoReturned(c) => LoopExit(c))
        /\ (<>LoopExit(c)) => <>VeoReturned(c)

\* C24: in a generate_video_with_veo call a poll that raised is the last step
\* of the call, which has returned the polling-error message (no poll follows
\* it); and a call that is over with an operation that is done and carries both
\* an error and a response has returned the operation-failed message, no URI.
C24_FirstPollErrorEndsCall ==
    \A c \in Calls :
        IsVeo(c) =>
            /\ \A i \in DOMAIN gen_trace[c] :
                   gen_trace[c][i] = Step("get", FALSE) =>
                       /\ i = Len(gen_trace[c])
                       /\ gen_pc[c] = "returned"
                       /\ gen_ret[c].value[1] = "Error while polling operation status:"
            /\ (GenOver(c) /\ operation[c].done /\ operation[c].error # "none"
                    /\ operation[c].response # "none") =>
                   /\ gen_pc[c] = "returned"
                   /\ gen_ret[c].value = <<"Operation failed:", operation[c].error>>
                   /\ ~IsUri(gen_ret[c].value)

\* one call ended at its second poll, which raised; the next call polled an
\* operation to its end, which carried an error and a video
C24_Witness ==
    /\ IsVeo(1) /\ GenOver(1)
    /\ LastPollRaised(1)
    /\ polls[1] = 2
    /\ gen_trace[1][Len(gen_trace[1]) - 1] = Step("get", TRUE)
    /\ IsVeo(2) /\ GenOver(2)
    /\ polls[2] > 0
    /\ operation[2].error # "none"
    /\ operation[2].response = "one_video"

====
